---- MODULE Spec2Model ----
(***************************************************************************)
(* Model of image-processor/app.py: the S3-triggered thumbnail handler.    *)
(* One invocation of lambda_handler is a run of the program counter pc     *)
(* from "received" to "done"; the process environment is fixed when the    *)
(* process starts, and the process is reused for further invocations.      *)
(* Strings the handler inspects (object keys, SEND_NOTIFICATIONS) are      *)
(* sequences of one-character strings; opaque names are TLA+ strings.      *)
(***************************************************************************)
EXTENDS Integers, Sequences, FiniteSets, TLC

VARIABLES env, event, pc, bucket, key, image, save_format, destination_bucket,
          new_key, e, s3_gets, s3_puts, sns_publishes, trace, result

vars == <<env, event, pc, bucket, key, image, save_format, destination_bucket,
          new_key, e, s3_gets, s3_puts, sns_publishes, trace, result>>

----------------------------------------------------------------------------
(* Bounds of the input space *)

\* longest stem (the part of an object key before its suffix) enumerated
MaxStem == 2

----------------------------------------------------------------------------
(* Python string operations *)

UpperCase == <<"A","B","C","D","E","F","G","H","I","J","K","L","M",
               "N","O","P","Q","R","S","T","U","V","W","X","Y","Z">>
LowerCase == <<"a","b","c","d","e","f","g","h","i","j","k","l","m",
               "n","o","p","q","r","s","t","u","v","w","x","y","z">>

LowerChar(c) ==
    IF \E i \in 1..Len(UpperCase) : UpperCase[i] = c
    THEN LowerCase[CHOOSE i \in 1..Len(UpperCase) : UpperCase[i] = c]
    ELSE c

\* str.lower()
ToLower(s) == [i \in 1..Len(s) |-> LowerChar(s[i])]

\* str.endswith(suffix)
EndsWith(s, suffix) ==
    /\ Len(s) >= Len(suffix)
    /\ SubSeq(s, Len(s) - Len(suffix) + 1, Len(s)) = suffix

\* str.rfind(c), 1-based; 0 when c does not occur
RFind(s, c) ==
    IF \E i \in 1..Len(s) : s[i] = c
    THEN CHOOSE i \in 1..Len(s) : s[i] = c /\ \A j \in (i+1)..Len(s) : s[j] # c
    ELSE 0

\* os.path.splitext(p)[0] on POSIX: the last dot of the final path component
\* starts the extension unless only dots precede it in that component
splitext_root(p) ==
    LET sepIndex == RFind(p, "/")
        dotIndex == RFind(p, ".")
    IN  IF /\ dotIndex > sepIndex
           /\ \E i \in (sepIndex + 1)..(dotIndex - 1) : p[i] # "."
        THEN SubSeq(p, 1, dotIndex - 1)
        ELSE p

----------------------------------------------------------------------------
(* Constants of the handler *)

image_extensions ==
    { <<".","p","n","g">>, <<".","j","p","g">>, <<".","j","p","e","g">>,
      <<".","g","i","f">>, <<".","b","m","p">> }

ThumbnailsPrefix == <<"t","h","u","m","b","n","a","i","l","s","/">>
JpgSuffix == <<".","j","p","g">>

\* variant: the extensions compared without their leading dot
IsImageKeyNoDot(k) == \E ext \in image_extensions : EndsWith(ToLower(k), Tail(ext))

\* key.lower().endswith(image_extensions)
IsImageKey(k) == \E ext \in image_extensions : EndsWith(ToLower(k), ext)

\* variant: the source extension is not stripped
NewKeyKeepsExtension(k) == ThumbnailsPrefix \o k \o JpgSuffix

\* f"thumbnails/{os.path.splitext(key)[0]}.jpg"
NewKey(k) == ThumbnailsPrefix \o splitext_root(k) \o JpgSuffix

\* os.environ.get(name, default)
EnvGet(environ, name, default) ==
    IF name \in DOMAIN environ THEN environ[name] ELSE default

\* variant: anything but 'false' enables notifications
NotificationsEnabledUnlessFalse(environ) ==
    ToLower(EnvGet(environ, "SEND_NOTIFICATIONS", <<"f","a","l","s","e">>))
        # <<"f","a","l","s","e">>

\* os.environ.get('SEND_NOTIFICATIONS', 'false').lower() == 'true'
NotificationsEnabled(environ) ==
    ToLower(EnvGet(environ, "SEND_NOTIFICATIONS", <<"f","a","l","s","e">>))
        = <<"t","r","u","e">>

\* json.dumps(obj): the serialized text of obj
JsonDumps(obj) == [json |-> obj]
\* a plain str value
PyStr(s) == [str |-> s]

Return(status, body) == [kind |-> "return", statusCode |-> status, body |-> body]
Raise(exc) == [kind |-> "raise", exc |-> exc]
NoResult == [kind |-> "none"]

InvalidEventResult == Return(400, PyStr("Invalid event structure"))
SkipResult == Return(200, PyStr("Not an image file, skipping processing"))
SuccessResult(k, nk) ==
    Return(200, JsonDumps([message |-> "Image processed successfully",
                           original_key |-> k,
                           processed_key |-> nk]))

\* f"Image {key} was successfully processed and saved to {destination_bucket}/{new_key}"
SuccessMessage(k, db, nk) ==
    [text |-> "Image {key} was successfully processed and saved to {destination_bucket}/{new_key}",
     key |-> k, destination_bucket |-> db, new_key |-> nk]

\* f"Error processing image {key}: {str(e)}"
ErrorMessage(k, exc) ==
    [text |-> "Error processing image {key}: {str(e)}", key |-> k, e |-> exc]

----------------------------------------------------------------------------
(* Inputs: process environments and notification events *)

SendValues ==
    { <<"t","r","u","e">>, <<"T","R","U","E">>, <<"T","r","u","e">>,
      <<"f","a","l","s","e">>, <<"y","e","s">>, <<"t","r","u","e"," ">> }

EnvNames == {"DESTINATION_BUCKET", "SEND_NOTIFICATIONS", "SNS_TOPIC_ARN"}

\* os.environ with the variables in names set
EnvOf(names, send) ==
    [n \in names |->
        CASE n = "DESTINATION_BUCKET" -> "dest-bucket"
          [] n = "SNS_TOPIC_ARN" -> "arn:aws:sns:topic"
          [] n = "SEND_NOTIFICATIONS" -> send]

Environs == { EnvOf(names, send) : names \in SUBSET EnvNames, send \in SendValues }

RECURSIVE SeqsUpTo(_, _)
SeqsUpTo(S, n) ==
    IF n = 0 THEN {<<>>}
    ELSE LET shorter == SeqsUpTo(S, n - 1)
         IN  shorter \cup {Append(s, c) : s \in shorter, c \in S}

Stems == SeqsUpTo({"a", "/", "."}, MaxStem)

Suffixes ==
    { <<".","p","n","g">>, <<".","P","N","G">>, <<".","j","p","g">>,
      <<".","J","p","e","g">>, <<".","g","i","f">>, <<".","b","m","p">>,
      <<".","t","x","t">>, <<"p","n","g">>, <<".","p","n","g","x">>, <<>> }

Keys == {stem \o suffix : stem \in Stems, suffix \in Suffixes} \ {<<>>}

S3Record(b, k) ==
    [eventName |-> "ObjectCreated:Put",
     s3 |-> [s3SchemaVersion |-> "1.0",
             bucket |-> [arn |-> "arn:aws:s3:::source", name |-> b],
             object |-> [size |-> 1024, key |-> k]]]

OtherRecord == S3Record("other-bucket", <<"z",".","t","x","t">>)

WellFormedEvents ==
    { [Records |-> <<S3Record("source-bucket", k)>>] : k \in Keys }
    \cup { [Records |-> <<S3Record("source-bucket", k), OtherRecord>>] :
             k \in {<<"a",".","p","n","g">>, <<"a">>} }

MalformedEvents ==
    { [source |-> "aws.events"],
      [Records |-> <<>>],
      [Records |-> <<[eventName |-> "ObjectCreated:Put"]>>],
      [Records |-> <<[eventName |-> "ObjectCreated:Put",
                      s3 |-> [s3SchemaVersion |-> "1.0"]]>>],
      [Records |-> <<[eventName |-> "ObjectCreated:Put",
                      s3 |-> [s3SchemaVersion |-> "1.0",
                              bucket |-> [arn |-> "arn:aws:s3:::source"],
                              object |-> [size |-> 1024,
                                          key |-> <<"a",".","p","n","g">>]]]>>],
      [Records |-> <<[eventName |-> "ObjectCreated:Put",
                      s3 |-> [s3SchemaVersion |-> "1.0",
                              bucket |-> [arn |-> "arn:aws:s3:::source",
                                          name |-> "source-bucket"]]]>>],
      [Records |-> <<[eventName |-> "ObjectCreated:Put",
                      s3 |-> [s3SchemaVersion |-> "1.0",
                              bucket |-> [arn |-> "arn:aws:s3:::source",
                                          name |-> "source-bucket"],
                              object |-> [size |-> 1024]]]>>],
      [Records |-> <<[eventName |-> "ObjectCreated:Put"], OtherRecord>>] }

Events == WellFormedEvents \cup MalformedEvents

\* images a source object can decode to: format and colour mode
Images == { [format |-> "PNG", mode |-> "RGBA"],
            [format |-> "JPEG", mode |-> "RGB"],
            [format |-> "GIF", mode |-> "P"] }

NoImage == [format |-> "None", mode |-> "None"]

----------------------------------------------------------------------------
(* Event parsing *)

HasKey(d, k) == k \in DOMAIN d

\* event['Records'][0]['s3']['bucket']['name'], then
\* event['Records'][0]['s3']['object']['key']
ParseEvent(ev) ==
    IF ~HasKey(ev, "Records") THEN [exc |-> "KeyError"]
    ELSE IF Len(ev.Records) = 0 THEN [exc |-> "IndexError"]
    ELSE LET rec == ev.Records[1]
         IN  IF ~HasKey(rec, "s3") THEN [exc |-> "KeyError"]
             ELSE IF ~HasKey(rec.s3, "bucket") THEN [exc |-> "KeyError"]
             ELSE IF ~HasKey(rec.s3.bucket, "name") THEN [exc |-> "KeyError"]
             ELSE IF ~HasKey(rec.s3, "object") THEN [exc |-> "KeyError"]
             ELSE IF ~HasKey(rec.s3.object, "key") THEN [exc |-> "KeyError"]
             ELSE [exc |-> "None",
                   bucket |-> rec.s3.bucket.name,
                   key |-> rec.s3.object.key]

\* variant: except KeyError
ParseCatchesKeyErrorOnly(exc) == exc \in {"KeyError"}

\* except (KeyError, IndexError)
ParseCatches(exc) == exc \in {"KeyError", "IndexError"}

----------------------------------------------------------------------------
(* The handler *)

Init ==
    /\ env \in Environs
    /\ event = [source |-> "none"]
    /\ pc = "idle"
    /\ bucket = "None"
    /\ key = <<>>
    /\ image = NoImage
    /\ save_format = "None"
    /\ destination_bucket = "None"
    /\ new_key = <<>>
    /\ e = "None"
    /\ s3_gets = <<>>
    /\ s3_puts = <<>>
    /\ sns_publishes = <<>>
    /\ trace = <<>>
    /\ result = NoResult

\* the invoking infrastructure calls lambda_handler(event, context)
Invoke ==
    /\ pc = "idle"
    /\ \E ev \in Events : event' = ev
    /\ pc' = "received"
    /\ UNCHANGED <<env, bucket, key, image, save_format, destination_bucket,
                   new_key, e, s3_gets, s3_puts, sns_publishes, trace, result>>

\* the result or the exception reaches the caller and the frame's locals are
\* discarded; the process and its environment stay for the next invocation
Deliver ==
    /\ pc = "done"
    /\ pc' = "idle"
    /\ event' = [source |-> "none"]
    /\ bucket' = "None"
    /\ key' = <<>>
    /\ image' = NoImage
    /\ save_format' = "None"
    /\ destination_bucket' = "None"
    /\ new_key' = <<>>
    /\ e' = "None"
    /\ s3_gets' = <<>>
    /\ s3_puts' = <<>>
    /\ sns_publishes' = <<>>
    /\ trace' = <<>>
    /\ result' = NoResult
    /\ UNCHANGED env

\* lines 16-21
Parse ==
    /\ pc = "received"
    /\ LET r == ParseEvent(event)
       IN  IF r.exc = "None"
           THEN /\ bucket' = r.bucket
                /\ key' = r.key
                /\ pc' = "parsed"
                /\ UNCHANGED result
           ELSE /\ result' = IF ParseCatches(r.exc)
                             THEN InvalidEventResult
                             ELSE Raise(r.exc)
                /\ pc' = "done"
                /\ UNCHANGED <<bucket, key>>
    /\ UNCHANGED <<env, event, image, save_format, destination_bucket, new_key,
                   e, s3_gets, s3_puts, sns_publishes, trace>>

\* lines 24-27
Filter ==
    /\ pc = "parsed"
    /\ IF ~IsImageKey(key)
       THEN /\ result' = SkipResult
            /\ pc' = "done"
       ELSE /\ pc' = "fetch"
            /\ UNCHANGED result
    /\ UNCHANGED <<env, event, bucket, key, image, save_format,
                   destination_bucket, new_key, e, s3_gets, s3_puts,
                   sns_publishes, trace>>

\* variant: a failed get is ignored and processing goes on
FetchIgnoresFailure ==
    /\ pc = "fetch"
    /\ s3_gets' = Append(s3_gets, [Bucket |-> bucket, Key |-> key])
    /\ \E ok \in BOOLEAN : trace' = Append(trace, [step |-> "get", ok |-> ok])
    /\ pc' = "decode"
    /\ UNCHANGED <<env, event, bucket, key, image, save_format, e,
                   destination_bucket, new_key, s3_puts, sns_publishes, result>>

\* lines 33-34: s3.get_object(Bucket=bucket, Key=key) and response['Body'].read()
Fetch ==
    /\ pc = "fetch"
    /\ s3_gets' = Append(s3_gets, [Bucket |-> bucket, Key |-> key])
    /\ \E ok \in BOOLEAN :
         /\ trace' = Append(trace, [step |-> "get", ok |-> ok])
         /\ IF ok
            THEN pc' = "decode" /\ UNCHANGED e
            ELSE pc' = "except" /\ e' = "GetObjectError"
    /\ UNCHANGED <<env, event, bucket, key, image, save_format,
                   destination_bucket, new_key, s3_puts, sns_publishes, result>>

\* line 37: Image.open(io.BytesIO(image_content))
Decode ==
    /\ pc = "decode"
    /\ \/ \E img \in Images :
            /\ image' = img
            /\ trace' = Append(trace, [step |-> "decode", ok |-> TRUE])
            /\ pc' = "resize"
            /\ UNCHANGED e
       \/ /\ trace' = Append(trace, [step |-> "decode", ok |-> FALSE])
          /\ pc' = "except"
          /\ e' = "UnidentifiedImageError"
          /\ UNCHANGED image
    /\ UNCHANGED <<env, event, bucket, key, save_format, destination_bucket,
                   new_key, s3_gets, s3_puts, sns_publishes, result>>

\* line 40: image.thumbnail((150, 150))
Resize ==
    /\ pc = "resize"
    /\ \E ok \in BOOLEAN :
         /\ trace' = Append(trace, [step |-> "resize", ok |-> ok])
         /\ IF ok
            THEN pc' = "encode" /\ UNCHANGED e
            ELSE pc' = "except" /\ e' = "ThumbnailError"
    /\ UNCHANGED <<env, event, bucket, key, image, save_format,
                   destination_bucket, new_key, s3_gets, s3_puts,
                   sns_publishes, result>>

\* lines 43-53: convert to RGB unless already JPEG, then image.save(...)
Encode ==
    /\ pc = "encode"
    /\ IF image.format # "JPEG"
       THEN /\ image' = [format |-> "None", mode |-> "RGB"]
            /\ save_format' = "JPEG"
       ELSE /\ save_format' = image.format
            /\ UNCHANGED image
    /\ \E ok \in BOOLEAN :
         /\ trace' = Append(trace, [step |-> "encode", ok |-> ok])
         /\ IF ok
            THEN pc' = "upload" /\ UNCHANGED e
            ELSE pc' = "except" /\ e' = "SaveError"
    /\ UNCHANGED <<env, event, bucket, key, destination_bucket, new_key,
                   s3_gets, s3_puts, sns_publishes, result>>

\* lines 56-65: destination key and s3.put_object(...)
Upload ==
    /\ pc = "upload"
    /\ IF ~HasKey(env, "DESTINATION_BUCKET")
       THEN /\ e' = "KeyError: 'DESTINATION_BUCKET'"
            /\ pc' = "except"
            /\ UNCHANGED <<destination_bucket, new_key, s3_puts, trace>>
       ELSE /\ destination_bucket' = env["DESTINATION_BUCKET"]
            /\ new_key' = NewKey(key)
            /\ s3_puts' = Append(s3_puts,
                              [Bucket |-> destination_bucket',
                               Key |-> new_key',
                               Body |-> [format |-> save_format, mode |-> image.mode],
                               ContentType |-> "image/jpeg",
                               StorageClass |-> "STANDARD_IA"])
            /\ \E ok \in BOOLEAN :
                 /\ trace' = Append(trace, [step |-> "put", ok |-> ok])
                 /\ IF ok
                    THEN pc' = "notify" /\ UNCHANGED e
                    ELSE pc' = "except" /\ e' = "PutObjectError"
    /\ UNCHANGED <<env, event, bucket, key, image, save_format, s3_gets,
                   sns_publishes, result>>

\* lines 67-84: optional success notification, then the success result
NotifySuccess ==
    /\ pc = "notify"
    /\ IF NotificationsEnabled(env)
       THEN IF ~HasKey(env, "SNS_TOPIC_ARN")
            THEN /\ e' = "KeyError: 'SNS_TOPIC_ARN'"
                 /\ pc' = "except"
                 /\ UNCHANGED <<sns_publishes, trace, result>>
            ELSE /\ sns_publishes' = Append(sns_publishes,
                        [TopicArn |-> env["SNS_TOPIC_ARN"],
                         Subject |-> "Image Processing Successful",
                         Message |-> SuccessMessage(key, destination_bucket, new_key)])
                 /\ \E ok \in BOOLEAN :
                      /\ trace' = Append(trace, [step |-> "publish_success", ok |-> ok])
                      /\ IF ok
                         THEN /\ result' = SuccessResult(key, new_key)
                              /\ pc' = "done"
                              /\ UNCHANGED e
                         ELSE /\ e' = "PublishError"
                              /\ pc' = "except"
                              /\ UNCHANGED result
       ELSE /\ result' = SuccessResult(key, new_key)
            /\ pc' = "done"
            /\ UNCHANGED <<e, sns_publishes, trace>>
    /\ UNCHANGED <<env, event, bucket, key, image, save_format,
                   destination_bucket, new_key, s3_gets, s3_puts>>

\* variant: the exception is swallowed and a 500 result returned
HandleExceptionReturns500 ==
    /\ pc = "except"
    /\ result' = Return(500, PyStr(e))
    /\ pc' = "done"
    /\ UNCHANGED <<env, event, bucket, key, image, save_format, trace,
                   destination_bucket, new_key, e, s3_gets, s3_puts,
                   sns_publishes>>

\* variant: the exception handler never completes
HandleExceptionHangs ==
    /\ pc = "except"
    /\ UNCHANGED vars

\* lines 86-99: except Exception as e: log, optional failure notification, raise e
HandleException ==
    /\ pc = "except"
    /\ IF NotificationsEnabled(env)
       THEN IF ~HasKey(env, "SNS_TOPIC_ARN")
            THEN /\ result' = Raise("KeyError: 'SNS_TOPIC_ARN'")
                 /\ UNCHANGED <<sns_publishes, trace>>
            ELSE /\ sns_publishes' = Append(sns_publishes,
                        [TopicArn |-> env["SNS_TOPIC_ARN"],
                         Subject |-> "Image Processing Failed",
                         Message |-> ErrorMessage(key, e)])
                 /\ \E ok \in BOOLEAN :
                      /\ trace' = Append(trace, [step |-> "publish_failure", ok |-> ok])
                      /\ result' = IF ok THEN Raise(e) ELSE Raise("PublishError")
       ELSE /\ result' = Raise(e)
            /\ UNCHANGED <<sns_publishes, trace>>
    /\ pc' = "done"
    /\ UNCHANGED <<env, event, bucket, key, image, save_format,
                   destination_bucket, new_key, e, s3_gets, s3_puts>>

\* the steps of one invocation
Step ==
    \/ Parse
    \/ Filter
    \/ Fetch
    \/ Decode
    \/ Resize
    \/ Encode
    \/ Upload
    \/ NotifySuccess
    \/ HandleException

Next == Invoke \/ Step \/ Deliver

Spec == Init /\ [][Next]_vars

\* every collaborator call returns and the runtime keeps executing the handler
FairSpec == Spec /\ WF_vars(Step)

----------------------------------------------------------------------------
(* Vocabulary of the properties *)

AllowedSuffixes ==
    { <<".","p","n","g">>, <<".","j","p","g">>, <<".","j","p","e","g">>,
      <<".","g","i","f">>, <<".","b","m","p">> }

\* the lowercase form of k ends in one of the allowed suffixes
HasAllowedSuffix(k) ==
    \E suf \in AllowedSuffixes :
        /\ Len(k) >= Len(suf)
        /\ \A i \in 1..Len(suf) : LowerChar(k[Len(k) - Len(suf) + i]) = suf[i]

\* the event lacks Records, has no record, or its first record lacks
\* s3.bucket.name or s3.object.key
Malformed(ev) ==
    \/ "Records" \notin DOMAIN ev
    \/ ev.Records = <<>>
    \/ "s3" \notin DOMAIN ev.Records[1]
    \/ "bucket" \notin DOMAIN ev.Records[1].s3
    \/ "name" \notin DOMAIN ev.Records[1].s3.bucket
    \/ "object" \notin DOMAIN ev.Records[1].s3
    \/ "key" \notin DOMAIN ev.Records[1].s3.object

Invoked == pc # "idle"
WellFormed == Invoked /\ ~Malformed(event)
SourceKey == event.Records[1].s3.object.key

\* SEND_NOTIFICATIONS is set to 'true' in some letter case
SendIsTrue ==
    /\ "SEND_NOTIFICATIONS" \in DOMAIN env
    /\ ToLower(env["SEND_NOTIFICATIONS"]) = <<"t","r","u","e">>

TopicConfigured == "SNS_TOPIC_ARN" \in DOMAIN env

NoCollaboratorCall == s3_gets = <<>> /\ s3_puts = <<>> /\ sns_publishes = <<>>

StepDone(step, ok) ==
    \E i \in 1..Len(trace) : trace[i] = [step |-> step, ok |-> ok]

ProcessingSteps == {"get", "decode", "resize", "encode", "put"}

ProcessingStepFailed == \E st \in ProcessingSteps : StepDone(st, FALSE)

Is400Result ==
    result = [kind |-> "return", statusCode |-> 400,
              body |-> [str |-> "Invalid event structure"]]

IsSkipResult ==
    result = [kind |-> "return", statusCode |-> 200,
              body |-> [str |-> "Not an image file, skipping processing"]]

IsSuccessResult ==
    /\ result.kind = "return"
    /\ result.statusCode = 200
    /\ "json" \in DOMAIN result.body
    /\ DOMAIN result.body.json = {"message", "original_key", "processed_key"}
    /\ result.body.json.message = "Image processed successfully"

IsRaised == result.kind = "raise"

\* the source key up to its last dot
WithoutExtension(k) == SubSeq(k, 1, RFind(k, ".") - 1)

\* nothing but dots precedes the last dot in the final path component
OnlyExtension(k) ==
    \A i \in (RFind(k, "/") + 1)..(RFind(k, ".") - 1) : k[i] = "."

Thumbnails(root) ==
    <<"t","h","u","m","b","n","a","i","l","s","/">> \o root \o <<".","j","p","g">>

----------------------------------------------------------------------------
(* Properties *)

\* C1: for an event that lacks Records, has an empty Records list, or whose
\* first record lacks s3.bucket.name or s3.object.key, the handler makes no
\* get, put or publish call and ends by returning the 400 result
\* 'Invalid event structure'; it never raises.
C1_MalformedEventReturns400 ==
    (Invoked /\ Malformed(event)) =>
        /\ NoCollaboratorCall
        /\ pc \in {"received", "done"}
        /\ pc = "done" => Is400Result

C1_Witness ==
    /\ pc = "done"
    /\ event = [Records |-> <<>>]
    /\ Is400Result

\* C2: for a well-formed event whose key, lowercased, ends in none of .png,
\* .jpg, .jpeg, .gif, .bmp, the handler makes no get, put or publish call and
\* ends by returning the 200 skip result, whatever SEND_NOTIFICATIONS is.
C2_NonImageKeySkipped ==
    (WellFormed /\ ~HasAllowedSuffix(SourceKey)) =>
        /\ NoCollaboratorCall
        /\ pc \in {"received", "parsed", "done"}
        /\ pc = "done" => IsSkipResult

C2_Witness ==
    /\ pc = "done"
    /\ SendIsTrue
    /\ WellFormed
    /\ SourceKey = <<"a","p","n","g">>
    /\ IsSkipResult

\* C3 (as claimed, with the topic configured): when SEND_NOTIFICATIONS is
\* 'true' and the get or the decode failed, the finished invocation has made
\* exactly one publish call, with subject 'Image Processing Failed' and a
\* message holding the source key and the error text, and the error raised to
\* the caller is the original get/decode error.
C3_FailureNotifiedAndOriginalErrorRaised ==
    (/\ pc = "done"
     /\ SendIsTrue
     /\ TopicConfigured
     /\ StepDone("get", FALSE) \/ StepDone("decode", FALSE)) =>
        LET original == IF StepDone("get", FALSE)
                        THEN "GetObjectError"
                        ELSE "UnidentifiedImageError"
        IN  /\ Len(sns_publishes) = 1
            /\ sns_publishes[1].Subject = "Image Processing Failed"
            /\ sns_publishes[1].Message.key = SourceKey
            /\ sns_publishes[1].Message.e = original
            /\ result = [kind |-> "raise", exc |-> original]

\* C4 (as claimed, with the topic configured): when SEND_NOTIFICATIONS is
\* 'true' and get, decode, resize, encode and put all succeeded, the finished
\* invocation has made exactly one publish call, with subject 'Image
\* Processing Successful' and a message holding the source and destination
\* keys, and has returned the 200 success result carrying both keys.
C4_SuccessNotifiedOnceAndReturned ==
    (/\ pc = "done"
     /\ SendIsTrue
     /\ TopicConfigured
     /\ \A st \in ProcessingSteps : StepDone(st, TRUE)) =>
        /\ Len(sns_publishes) = 1
        /\ sns_publishes[1].Subject = "Image Processing Successful"
        /\ sns_publishes[1].Message.key = SourceKey
        /\ sns_publishes[1].Message.new_key = s3_puts[1].Key
        /\ IsSuccessResult
        /\ result.body.json.original_key = SourceKey
        /\ result.body.json.processed_key = s3_puts[1].Key

\* C5: when SEND_NOTIFICATIONS is unset or is not 'true' in any letter case,
\* no publish call is made on any path of the handler.
C5_NoPublishWhenDisabled ==
    ~SendIsTrue => sns_publishes = <<>>

C5_Witness ==
    /\ pc = "done"
    /\ "SEND_NOTIFICATIONS" \in DOMAIN env
    /\ env["SEND_NOTIFICATIONS"] = <<"y","e","s">>
    /\ IsRaised
    /\ StepDone("get", TRUE)
    /\ sns_publishes = <<>>

\* C6: in every invocation the handler issues at most one get, at most one
\* put and at most one publish, whichever collaborator calls fail.
C6_AtMostOneCallEach ==
    /\ Len(s3_gets) <= 1
    /\ Len(s3_puts) <= 1
    /\ Len(sns_publishes) <= 1

\* C7: once get, decode, resize, encode or put has failed, the invocation
\* ends by raising and returns no result, and no processing step is attempted
\* twice; a returned result after a failure is the 400 of a malformed event.
C7_ProcessingFailureRaises ==
    /\ ProcessingStepFailed =>
          /\ pc \in {"except", "done"}
          /\ pc = "done" => IsRaised
    /\ \A st \in ProcessingSteps :
          Cardinality({i \in 1..Len(trace) : trace[i].step = st}) <= 1
    /\ (pc = "done" /\ result.kind = "return") =>
          \/ Malformed(event) /\ Is400Result
          \/ e = "None" /\ \A i \in 1..Len(trace) : trace[i].ok

C7_Witness ==
    /\ pc = "done"
    /\ StepDone("put", FALSE)
    /\ result = [kind |-> "raise", exc |-> "PutObjectError"]

\* C8 (as claimed): for every source key that passes the extension filter,
\* the key of the destination write and the reported processed_key are
\* 'thumbnails/' + the source key up to its last dot + '.jpg', also when the
\* final path component is only an extension.
C8_DestinationKeyStripsExtension ==
    (WellFormed /\ HasAllowedSuffix(SourceKey)) =>
        /\ \A i \in 1..Len(s3_puts) :
              s3_puts[i].Key = Thumbnails(WithoutExtension(SourceKey))
        /\ (pc = "done" /\ IsSuccessResult) =>
              result.body.json.processed_key = Thumbnails(WithoutExtension(SourceKey))

\* C8 (amended): for every source key that passes the extension filter, the
\* key of the destination write and the reported processed_key are
\* 'thumbnails/' + root + '.jpg', where root is the source key up to its last
\* dot, except that a key whose final path component has nothing but dots
\* before its last dot (such as '.png' or 'a/.png') is kept whole.
C8_DestinationKeySplitext ==
    (WellFormed /\ HasAllowedSuffix(SourceKey)) =>
        LET root == IF OnlyExtension(SourceKey)
                    THEN SourceKey
                    ELSE WithoutExtension(SourceKey)
        IN  /\ \A i \in 1..Len(s3_puts) : s3_puts[i].Key = Thumbnails(root)
            /\ (pc = "done" /\ IsSuccessResult) =>
                  result.body.json.processed_key = Thumbnails(root)

C8_Witness ==
    /\ pc = "done"
    /\ WellFormed
    /\ SourceKey = <<"a","/",".","P","N","G">>
    /\ IsSuccessResult
    /\ Len(s3_puts) = 1

\* C9: every invocation, whose collaborator calls all return, reaches its end,
\* and at its end exactly one of the four outcomes holds: the 400 malformed
\* result, the 200 skip result, the 200 success result, or a raised error.
C9_TerminatesInOneOfFourOutcomes ==
    /\ [](pc = "done" =>
            Cardinality({o \in 1..4 :
                \/ o = 1 /\ Is400Result
                \/ o = 2 /\ IsSkipResult
                \/ o = 3 /\ IsSuccessResult
                \/ o = 4 /\ IsRaised}) = 1)
    /\ [](pc \in {"idle", "received", "parsed", "fetch", "decode", "resize",
                  "encode", "upload", "notify", "except", "done"})
    /\ (pc \notin {"idle", "done"}) ~> (pc = "done")

C9_Witness ==
    /\ pc = "done"
    /\ IsRaised
    /\ StepDone("resize", FALSE)

\* C10: the steps of an invocation occur in the order get, decode, resize,
\* encode, put, success publish; a put is attempted only after get, decode
\* and encode succeeded, the success publish only after the put succeeded,
\* and the success result is returned only if get and put succeeded and, with
\* notifications enabled, the success publish succeeded.
C10_StepOrder ==
    LET Rank(st) == CASE st = "get" -> 1
                      [] st = "decode" -> 2
                      [] st = "resize" -> 3
                      [] st = "encode" -> 4
                      [] st = "put" -> 5
                      [] st = "publish_success" -> 6
                      [] OTHER -> 7
        Before(i, st) == \E j \in 1..(i - 1) : trace[j] = [step |-> st, ok |-> TRUE]
    IN  /\ \A i, j \in 1..Len(trace) : i < j => Rank(trace[i].step) < Rank(trace[j].step)
        /\ \A i \in 1..Len(trace) :
              /\ trace[i].step = "put" =>
                    Before(i, "get") /\ Before(i, "decode") /\ Before(i, "encode")
              /\ trace[i].step = "publish_success" => Before(i, "put")
        /\ (pc = "done" /\ IsSuccessResult) =>
              /\ StepDone("get", TRUE)
              /\ StepDone("put", TRUE)
              /\ SendIsTrue => StepDone("publish_success", TRUE)

C10_Witness ==
    /\ pc = "done"
    /\ IsSuccessResult
    /\ SendIsTrue
    /\ Len(trace) = 6
    /\ \A i \in 1..Len(trace) : trace[i].ok

====
